---- MODULE Spec2Model ----
(***************************************************************************)
(* pg_probackup: backup catalog (catalog.c) and backup validation          *)
(* (validate.c).                                                           *)
(*                                                                         *)
(* One process of the program (Self) runs do_validate_last / do_validate / *)
(* pgBackupValidate; the validation worker threads of pgBackupValidate are *)
(* interleaved step by step.  Other instances of the program take and      *)
(* release the catalog lock with the same catalog_lock / catalog_unlock.   *)
(* The text of backup.ini, as pgBackupWriteIni writes it and               *)
(* catalog_read_ini and catalog_get_backup_list read it, is followed in    *)
(* SpecStore, and in SpecRewrite for the backup.ini that pgBackupValidate  *)
(* writes.                                                                 *)
(***************************************************************************)
EXTENDS Integers, Sequences, FiniteSets, TLC

(***************************************************************************)
(* Bounds of the model                                                     *)
(***************************************************************************)
MaxFiles == 2        \* longest file manifest of a backup (SpecEngine)
MaxThreads == 2      \* largest num_threads (SpecEngine)
NumOthers == 1       \* other program instances competing for the catalog lock

(***************************************************************************)
(* Program constants                                                       *)
(***************************************************************************)
BACKUP_MODE_INVALID == 0
BACKUP_MODE_DIFF_PAGE == 1
BACKUP_MODE_DIFF_PTRACK == 2
BACKUP_MODE_FULL == 3
BYTES_INVALID == -1

BackupStatus ==
    {"INVALID", "RUNNING", "DONE", "OK", "ERROR", "DELETING", "DELETED", "CORRUPT"}

Self == 0                \* the process whose operations are followed
Others == 1..NumOthers   \* the other instances of the program

BackupIds == {1, 2}  \* start_time of the backups in the catalog

(***************************************************************************)
(* pgFile entries of a file list together with what stat() and             *)
(* pgFileGetCRC() find on disk for the entry's path.                       *)
(***************************************************************************)
FileGood ==
    [write_size |-> 1, is_reg |-> TRUE, crc |-> 0,
     st_errno |-> "OK", st_size |-> 1, file_crc |-> 0]
FileVanished == [FileGood EXCEPT !.st_errno = "ENOENT"]
FileStatError == [FileGood EXCEPT !.st_errno = "EACCES"]
FileBadSize == [FileGood EXCEPT !.st_size = 2]
FileBadCrc == [FileGood EXCEPT !.file_crc = 1]
FileSkipped == [FileVanished EXCEPT !.write_size = BYTES_INVALID]
FileNotRegular == [FileVanished EXCEPT !.is_reg = FALSE]

FileKinds ==
    {FileGood, FileVanished, FileStatError, FileBadSize, FileBadCrc,
     FileSkipped, FileNotRegular}

SeqsUpTo(S, n) == UNION {[1..k -> S] : k \in 0..n}

VARIABLES
    catalog,        \* backup.ini of every backup: start_time -> pgBackup
    files,          \* file list and on-disk files of every backup
    conf_exists,    \* pg_probackup.conf can be opened
    holders,        \* processes holding the flock on pg_probackup.conf
    lock_ret,       \* Self: ret, the return value of catalog_lock, -1 none
    check,          \* global option check
    num_threads,    \* global option num_threads
    interrupted,    \* global cancellation flag of Self
    pc,             \* position of Self
    op,             \* operation Self runs
    backup_id,      \* do_validate: argument backup_id
    satisfied,      \* do_validate: backups passing satisfy_timeline and
                    \* satisfy_recovery_target for the given target
    backups,        \* in-memory backup list (parray of pgBackup)
    listed,         \* status of every backup as catalog_get_backup_list read it
    i,              \* loop index (C, 0-based)
    base_index,
    last_restored_index,
    cur,            \* start_time of the backup pgBackupValidate works on
    ret_to,         \* caller of pgBackupValidate
    size_only,      \* pgBackupValidate: argument size_only
    pre_status,     \* persisted status of cur when pgBackupValidate was entered
    lockf,          \* pgFile.lock of every entry of the loaded file list
    wstate,         \* per worker thread: "run" or "ret"
    wi,             \* per worker thread: loop index i (C, 0-based)
    wcorr,          \* per worker thread: arguments->corrupted
    claimedBy,      \* per entry: workers whose test-and-set returned 0
    validated,      \* backups handed to pgBackupValidate by this operation
    wal_from,       \* backup whose start_lsn was passed to validate_wal, 0 none
    errmsg,         \* message of the elog(ERROR) that ended Self, "" none
    dirents,        \* backups directory: its entries in readdir() order
    ini,            \* text of the backup.ini of every entry of the directory
    written,        \* per entry: the pgBackup last given to pgBackupWriteIni
    ret             \* last call of the catalog store and what it returned

vars ==
    <<catalog, files, conf_exists, holders, lock_ret, check, num_threads,
      interrupted, pc, op, backup_id, satisfied, backups, listed, i,
      base_index, last_restored_index, cur, ret_to, size_only, pre_status,
      lockf, wstate, wi, wcorr, claimedBy, validated, wal_from, errmsg,
      dirents, ini, written, ret>>

storeVars == <<dirents, ini, written, ret>>
envVars == <<files, conf_exists, check, num_threads, storeVars>>
opVars == <<op, backup_id, satisfied>>
loopVars == <<i, base_index, last_restored_index>>
threadVars == <<lockf, wstate, wi, wcorr, claimedBy>>

(***************************************************************************)
(* catalog.c                                                               *)
(***************************************************************************)

\* Variant of flock_LOCK_EX_NB: the lock is granted whoever holds it.
flock_Shared(h) == TRUE

\* flock(lock_fd, LOCK_EX | LOCK_NB) == 0: the exclusive lock is granted
\* only when no open file description holds a lock on the file.
flock_LOCK_EX_NB(h) == h = {}

\* catalog_lock: 0 (locked) or 1 (held by another one); -1 stands for the
\* elog(ERROR) of a failed open, after which nothing is returned.
catalog_lock ==
    IF ~conf_exists THEN -1
    ELSE IF flock_LOCK_EX_NB(holders) THEN 0
    ELSE 1

\* catalog_unlock by process p: close(lock_fd) drops the lock p holds.
catalog_unlock(p) == holders \ {p}

\* elog(ERROR, msg): the process ends with msg; its descriptors are closed,
\* which releases the catalog lock.
elog_ERROR(msg) ==
    /\ pc' = "fatal"
    /\ errmsg' = msg
    /\ holders' = catalog_unlock(Self)

\* Variant of pgBackupWriteIni: the result section is not written, so that
\* the backup.ini has no STATUS.
pgBackupWriteIni_ConfigOnly(cat, b) ==
    [cat EXCEPT ![b.start_time] = [b EXCEPT !.status = "INVALID"]]

\* pgBackupWriteIni: the whole backup.ini of b is rewritten from memory.
pgBackupWriteIni(cat, b) == [cat EXCEPT ![b.start_time] = b]

pgBackupCompareId(l, r) ==
    IF l.start_time > r.start_time THEN 1
    ELSE IF l.start_time < r.start_time THEN -1
    ELSE 0

\* Variant of pgBackupCompareIdDesc: the sign is not turned.
pgBackupCompareIdDesc_Asc(l, r) == pgBackupCompareId(l, r)

pgBackupCompareIdDesc(l, r) == -pgBackupCompareId(l, r)

RECURSIVE InsertAsc(_, _)
InsertAsc(s, b) ==
    IF s = <<>> THEN <<b>>
    ELSE IF pgBackupCompareId(b, Head(s)) <= 0 THEN <<b>> \o s
    ELSE <<Head(s)>> \o InsertAsc(Tail(s), b)

RECURSIVE InsertDesc(_, _)
InsertDesc(s, b) ==
    IF s = <<>> THEN <<b>>
    ELSE IF pgBackupCompareIdDesc(b, Head(s)) <= 0 THEN <<b>> \o s
    ELSE <<Head(s)>> \o InsertDesc(Tail(s), b)

\* parray_qsort(list, pgBackupCompareId)
RECURSIVE SortAsc(_)
SortAsc(s) == IF s = <<>> THEN <<>> ELSE InsertAsc(SortAsc(Tail(s)), Head(s))

\* parray_qsort(list, pgBackupCompareIdDesc)
RECURSIVE SortDesc(_)
SortDesc(s) == IF s = <<>> THEN <<>> ELSE InsertDesc(SortDesc(Tail(s)), Head(s))

\* readdir() of the backups directory: the entries in some order.
RECURSIVE ReadDir(_)
ReadDir(ids) ==
    IF ids = {} THEN <<>>
    ELSE LET d == CHOOSE x \in ids : TRUE IN <<d>> \o ReadDir(ids \ {d})

\* catalog_get_backup_list(filter): every backup.ini, or the one whose
\* start_time is filter when filter # 0, sorted by descending start_time.
catalog_get_backup_list(cat, filter) ==
    LET dir == ReadDir(DOMAIN cat)
        all == [k \in 1..Len(dir) |-> cat[dir[k]]]
        Keep(b) == filter = 0 \/ filter = b.start_time
    IN SortDesc(SelectSeq(all, Keep))

(***************************************************************************)
(* validate.c: pgBackupValidate and its worker threads                     *)
(***************************************************************************)

Workers == 1..num_threads

HasDatabaseFiles(b) ==
    b.backup_mode \in
        {BACKUP_MODE_FULL, BACKUP_MODE_DIFF_PAGE, BACKUP_MODE_DIFF_PTRACK}

\* Variant of ResetLocks: the release loop is left out.
ResetLocks_Skipped(loaded) == loaded

\* pgBackupValidate, setup threads: __sync_lock_release on every entry.
ResetLocks(loaded) == [k \in DOMAIN loaded |-> 0]

\* Variant of ClaimSucceeds: the old value of the lock is not looked at.
ClaimSucceeds_Always(old) == TRUE

\* __sync_lock_test_and_set(&file->lock, 1) != 0 is "continue": the entry is
\* claimed by the caller iff the old value was 0.
ClaimSucceeds(old) == old = 0

\* Variant of FileVerdict: errno is not looked at when stat() fails.
FileVerdict_AnyErrnoVanished(file, sizeonly, intr) ==
    IF intr THEN "interrupted"
    ELSE IF file.write_size = BYTES_INVALID \/ ~file.is_reg THEN "skip"
    ELSE IF file.st_errno # "OK" THEN "vanished"
    ELSE IF file.write_size # file.st_size THEN "size"
    ELSE IF ~sizeonly /\ file.file_crc # file.crc THEN "crc"
    ELSE "valid"

\* Variant of FileVerdict: the CRC is never compared.
FileVerdict_NoCrc(file, sizeonly, intr) ==
    IF intr THEN "interrupted"
    ELSE IF file.write_size = BYTES_INVALID \/ ~file.is_reg THEN "skip"
    ELSE IF file.st_errno = "ENOENT" THEN "vanished"
    ELSE IF file.st_errno # "OK" THEN "stat_error"
    ELSE IF file.write_size # file.st_size THEN "size"
    ELSE "valid"

\* pgBackupValidateFiles: what one loop iteration finds for a claimed entry,
\* in the order of the checks.
FileVerdict(file, sizeonly, intr) ==
    IF intr THEN "interrupted"
    ELSE IF file.write_size = BYTES_INVALID \/ ~file.is_reg THEN "skip"
    ELSE IF file.st_errno = "ENOENT" THEN "vanished"
    ELSE IF file.st_errno # "OK" THEN "stat_error"
    ELSE IF file.write_size # file.st_size THEN "size"
    ELSE IF ~sizeonly /\ file.file_crc # file.crc THEN "crc"
    ELSE "valid"

\* Variant of VerdictEffect: cancellation is handled like a bad file.
VerdictEffect_InterruptSoft(v) ==
    IF v = "stat_error" THEN "elog_error"
    ELSE IF v \in {"interrupted", "vanished", "size", "crc"}
    THEN "corrupted_return"
    ELSE "continue"

\* Variant of VerdictEffect: a vanished file is reported with elog(ERROR).
VerdictEffect_VanishedFatal(v) ==
    IF v \in {"interrupted", "stat_error", "vanished"} THEN "elog_error"
    ELSE IF v \in {"size", "crc"} THEN "corrupted_return"
    ELSE "continue"

\* pgBackupValidateFiles: how the iteration ends for each verdict:
\* elog(ERROR), corrupted = true and return, or the next iteration.
VerdictEffect(v) ==
    IF v \in {"interrupted", "stat_error"} THEN "elog_error"
    ELSE IF v \in {"vanished", "size", "crc"} THEN "corrupted_return"
    ELSE "continue"

VerdictMessage(v) ==
    IF v = "interrupted" THEN "interrupted during validate"
    ELSE "cannot stat backup file"

\* Variant of ReturnFromValidate: after the base backup do_validate goes on
\* to validate_wal, the loop over the differential backups is left out.
ReturnFromValidate_NoDiffLoop ==
    IF ret_to = "last"
    THEN /\ pc' = "last_loop"
         /\ i' = i + 1
         /\ UNCHANGED <<base_index, last_restored_index>>
    ELSE IF ret_to = "base"
    THEN /\ pc' = "wal"
         /\ last_restored_index' = base_index
         /\ i' = base_index - 1
         /\ UNCHANGED base_index
    ELSE IF ret_to = "diff"
    THEN /\ pc' = "diff_loop"
         /\ last_restored_index' = i
         /\ i' = i - 1
         /\ UNCHANGED base_index
    ELSE /\ pc' = "done"
         /\ UNCHANGED loopVars

\* Variant of ReturnFromValidate: last_restored_index is not moved to a
\* differential backup that has been validated and stays at the base.
ReturnFromValidate_IndexAtBase ==
    IF ret_to = "last"
    THEN /\ pc' = "last_loop"
         /\ i' = i + 1
         /\ UNCHANGED <<base_index, last_restored_index>>
    ELSE IF ret_to = "base"
    THEN /\ pc' = "diff_loop"
         /\ last_restored_index' = base_index
         /\ i' = base_index - 1
         /\ UNCHANGED base_index
    ELSE IF ret_to = "diff"
    THEN /\ pc' = "diff_loop"
         /\ i' = i - 1
         /\ UNCHANGED <<base_index, last_restored_index>>
    ELSE /\ pc' = "done"
         /\ UNCHANGED loopVars

\* The statement after pgBackupValidate in its caller.
ReturnFromValidate ==
    IF ret_to = "last"
    THEN /\ pc' = "last_loop"
         /\ i' = i + 1
         /\ UNCHANGED <<base_index, last_restored_index>>
    ELSE IF ret_to = "base"
    THEN /\ pc' = "diff_loop"
         /\ last_restored_index' = base_index
         /\ i' = base_index - 1
         /\ UNCHANGED base_index
    ELSE IF ret_to = "diff"
    THEN /\ pc' = "diff_loop"
         /\ last_restored_index' = i
         /\ i' = i - 1
         /\ UNCHANGED base_index
    ELSE /\ pc' = "done"
         /\ UNCHANGED loopVars

MemBackup(id) ==
    LET k == CHOOSE k \in 1..Len(backups) : backups[k].start_time = id
    IN backups[k]

SetMemStatus(id, st) ==
    [k \in 1..Len(backups) |->
        IF backups[k].start_time = id
        THEN [backups[k] EXCEPT !.status = st]
        ELSE backups[k]]

\* pgBackupValidate up to pthread_create: nothing at all under check; the
\* file list is read (pgFile.lock is not set by the reader), every lock is
\* released and the threads are started.  A backup without database files
\* has nothing to look at and is written as OK.
pgBackupValidate_start ==
    /\ pc = "validate"
    /\ IF check
       THEN /\ ReturnFromValidate
            /\ UNCHANGED <<catalog, backups, threadVars>>
       ELSE IF ~HasDatabaseFiles(MemBackup(cur))
       THEN /\ backups' = SetMemStatus(cur, "OK")
            /\ catalog' = pgBackupWriteIni(catalog,
                              [MemBackup(cur) EXCEPT !.status = "OK"])
            /\ ReturnFromValidate
            /\ UNCHANGED threadVars
       ELSE /\ \E loaded \in [1..Len(files[cur]) -> {0, 1}] :
                    lockf' = ResetLocks(loaded)
            /\ wstate' = [w \in Workers |-> "run"]
            /\ wi' = [w \in Workers |-> 0]
            /\ wcorr' = [w \in Workers |-> FALSE]
            /\ claimedBy' = [k \in 1..Len(files[cur]) |-> <<>>]
            /\ pc' = "threads"
            /\ UNCHANGED <<catalog, backups, loopVars>>
    /\ UNCHANGED <<envVars, opVars, holders, lock_ret, interrupted, listed,
                   cur, ret_to, size_only, pre_status, validated, wal_from,
                   errmsg>>

\* pgBackupValidateFiles: one iteration of the loop of worker w, or its end.
pgBackupValidateFiles(w) ==
    /\ pc = "threads"
    /\ w \in DOMAIN wstate
    /\ wstate[w] = "run"
    /\ IF wi[w] >= Len(lockf)
       THEN /\ wstate' = [wstate EXCEPT ![w] = "ret"]
            /\ UNCHANGED <<lockf, wi, wcorr, claimedBy, pc, errmsg, holders>>
       ELSE LET k == wi[w] + 1
                old == lockf[k]
                v == FileVerdict(files[cur][k], size_only, interrupted)
            IN /\ lockf' = [lockf EXCEPT ![k] = 1]
               /\ IF ~ClaimSucceeds(old)
                  THEN /\ wi' = [wi EXCEPT ![w] = wi[w] + 1]
                       /\ UNCHANGED <<wstate, wcorr, claimedBy, pc, errmsg,
                                      holders>>
                  ELSE /\ claimedBy' =
                              [claimedBy EXCEPT ![k] = Append(claimedBy[k], w)]
                       /\ IF VerdictEffect(v) = "elog_error"
                          THEN /\ elog_ERROR(VerdictMessage(v))
                               /\ UNCHANGED <<wstate, wi, wcorr>>
                          ELSE IF VerdictEffect(v) = "corrupted_return"
                          THEN /\ wcorr' = [wcorr EXCEPT ![w] = TRUE]
                               /\ wstate' = [wstate EXCEPT ![w] = "ret"]
                               /\ UNCHANGED <<wi, pc, errmsg, holders>>
                          ELSE /\ wi' = [wi EXCEPT ![w] = wi[w] + 1]
                               /\ UNCHANGED <<wstate, wcorr, pc, errmsg,
                                              holders>>
    /\ UNCHANGED <<envVars, opVars, loopVars, catalog, lock_ret, interrupted,
                   backups, listed, cur, ret_to, size_only, pre_status,
                   validated, wal_from>>

\* Variant of ThreadsJoined: only the first thread is waited for.
ThreadsJoined_FirstOnly(ws) == ws[1] = "ret"

\* The loop of pthread_join over every thread has ended.
ThreadsJoined(ws) == \A w \in DOMAIN ws : ws[w] = "ret"

\* pgBackupValidate from pthread_join on: the corrupted flags are or-ed, the
\* status is set and the backup.ini written.
pgBackupValidate_join ==
    /\ pc = "threads"
    /\ ThreadsJoined(wstate)
    /\ LET corrupted == \E w \in DOMAIN wcorr : wcorr[w]
           st == IF corrupted THEN "CORRUPT" ELSE "OK"
       IN /\ backups' = SetMemStatus(cur, st)
          /\ catalog' = pgBackupWriteIni(catalog,
                            [MemBackup(cur) EXCEPT !.status = st])
    /\ ReturnFromValidate
    /\ UNCHANGED <<envVars, opVars, holders, lock_ret, interrupted, listed,
                   cur, ret_to, size_only, pre_status, threadVars, validated,
                   wal_from, errmsg>>

\* The signal handler sets the cancellation flag.  The flag is read by the
\* worker threads only, so a signal that arrives earlier in the operation is
\* the same as one that arrives when pgBackupValidate is entered.
Interrupt ==
    /\ pc \in {"validate", "threads"}
    /\ ~interrupted
    /\ interrupted' = TRUE
    /\ UNCHANGED <<envVars, opVars, loopVars, threadVars, catalog, holders,
                   lock_ret, pc, backups, listed, cur, ret_to, size_only,
                   pre_status, validated, wal_from, errmsg>>

(***************************************************************************)
(* validate.c: do_validate_last and do_validate                            *)
(***************************************************************************)

another_pg_probackup == lock_ret = 1

\* Variant of CleanExtra: the result of catalog_lock is not looked at.
CleanExtra_Unlocked(b, another) == b.status \in {"RUNNING", "DELETING"}

\* Variant of CleanExtra: deleted backups are cleaned as well.
CleanExtra_Deleted(b, another) ==
    ~another /\ b.status \in {"RUNNING", "DELETING", "DELETED"}

\* do_validate_last: clean extra backups (switch STATUS to ERROR).
CleanExtra(b, another) ==
    ~another /\ b.status \in {"RUNNING", "DELETING"}

\* Variant of IsCompleted: every backup that is not running is validated.
IsCompleted_NotRunning(b) == b.status \notin {"RUNNING", "DELETING"}

\* do_validate_last: validate completed backups only.
IsCompleted(b) == b.status = "DONE"

\* Variant of StatusUsable: backups in ERROR are taken as well.
StatusUsable_Error(st) == st \in {"OK", "CORRUPT", "ERROR"}

\* do_validate: status == BACKUP_STATUS_OK || status == BACKUP_STATUS_CORRUPT
StatusUsable(st) == st \in {"OK", "CORRUPT"}

\* Variant of Satisfies: the timeline and the target are not looked at.
Satisfies_Any(b, sat) == TRUE

\* satisfy_timeline(timelines, b) && satisfy_recovery_target(b, rt)
Satisfies(b, sat) == b.start_time \in sat

\* Variant of BaseScan: the status of the given backup is not checked.
RECURSIVE BaseScan_GivenUnchecked(_, _, _, _, _)
BaseScan_GivenUnchecked(list, bid, sat, k, found) ==
    IF k >= Len(list) THEN [result |-> "none", index |-> k]
    ELSE LET b == list[k + 1]
             found1 == found \/ (bid = b.start_time /\ StatusUsable(b.status))
         IN IF bid # 0 /\ b.start_time > bid
            THEN BaseScan_GivenUnchecked(list, bid, sat, k + 1, found)
            ELSE IF b.backup_mode < BACKUP_MODE_FULL
                    \/ ~StatusUsable(b.status)
            THEN BaseScan_GivenUnchecked(list, bid, sat, k + 1, found1)
            ELSE IF Satisfies(b, sat) /\ (found1 \/ bid = 0)
            THEN [result |-> "found", index |-> k]
            ELSE BaseScan_GivenUnchecked(list, bid, sat, k + 1, FALSE)

\* Variant of BaseScan: backup_id_found is not set back to false.
RECURSIVE BaseScan_FlagKept(_, _, _, _, _)
BaseScan_FlagKept(list, bid, sat, k, found) ==
    IF k >= Len(list) THEN [result |-> "none", index |-> k]
    ELSE LET b == list[k + 1]
             found1 == found \/ (bid = b.start_time /\ StatusUsable(b.status))
         IN IF bid # 0 /\ b.start_time > bid
            THEN BaseScan_FlagKept(list, bid, sat, k + 1, found)
            ELSE IF bid = b.start_time /\ ~StatusUsable(b.status)
            THEN [result |-> "given", index |-> k]
            ELSE IF b.backup_mode < BACKUP_MODE_FULL
                    \/ ~StatusUsable(b.status)
            THEN BaseScan_FlagKept(list, bid, sat, k + 1, found1)
            ELSE IF Satisfies(b, sat) /\ (found1 \/ bid = 0)
            THEN [result |-> "found", index |-> k]
            ELSE BaseScan_FlagKept(list, bid, sat, k + 1, found1)

\* do_validate, "find last full backup which can be used as base backup":
\* the loop from index k (0-based) with backup_id_found = found.
RECURSIVE BaseScan(_, _, _, _, _)
BaseScan(list, bid, sat, k, found) ==
    IF k >= Len(list) THEN [result |-> "none", index |-> k]
    ELSE LET b == list[k + 1]
             found1 == found \/ (bid = b.start_time /\ StatusUsable(b.status))
         IN IF bid # 0 /\ b.start_time > bid
            THEN BaseScan(list, bid, sat, k + 1, found)
            ELSE IF bid = b.start_time /\ ~StatusUsable(b.status)
            THEN [result |-> "given", index |-> k]
            ELSE IF b.backup_mode < BACKUP_MODE_FULL
                    \/ ~StatusUsable(b.status)
            THEN BaseScan(list, bid, sat, k + 1, found1)
            ELSE IF Satisfies(b, sat) /\ (found1 \/ bid = 0)
            THEN [result |-> "found", index |-> k]
            ELSE BaseScan(list, bid, sat, k + 1, FALSE)

\* Variant of DiffStep: the mode is looked at before the status and the
\* timeline.
DiffStep_FullFirst(b, base, bid, sat) ==
    IF b.backup_mode = BACKUP_MODE_FULL THEN "break"
    ELSE IF ~StatusUsable(b.status) \/ b.tli # base.tli THEN "continue"
    ELSE IF bid # 0 /\ b.start_time > bid THEN "break"
    ELSE IF b.backup_mode # BACKUP_MODE_DIFF_PAGE
            /\ b.backup_mode # BACKUP_MODE_DIFF_PTRACK THEN "continue"
    ELSE IF ~Satisfies(b, sat) THEN "continue"
    ELSE "validate"

\* do_validate, "restore following differential backup": one iteration.
DiffStep(b, base, bid, sat) ==
    IF ~StatusUsable(b.status) \/ b.tli # base.tli THEN "continue"
    ELSE IF b.backup_mode = BACKUP_MODE_FULL THEN "break"
    ELSE IF bid # 0 /\ b.start_time > bid THEN "break"
    ELSE IF b.backup_mode # BACKUP_MODE_DIFF_PAGE
            /\ b.backup_mode # BACKUP_MODE_DIFF_PTRACK THEN "continue"
    ELSE IF ~Satisfies(b, sat) THEN "continue"
    ELSE "validate"

\* A call pgBackupValidate(b, false, false) from caller.
CallValidate(b, caller) ==
    /\ cur' = b.start_time
    /\ ret_to' = caller
    /\ size_only' = FALSE
    /\ pre_status' = catalog[b.start_time].status
    /\ validated' = Append(validated, b.start_time)
    /\ pc' = "validate"

\* A new run of the program: the state of the process is fresh.
FreshProcess ==
    /\ interrupted' = FALSE
    /\ backups' = <<>>
    /\ listed' = [id \in DOMAIN catalog |-> "INVALID"]
    /\ i' = 0
    /\ base_index' = 0
    /\ last_restored_index' = 0
    /\ cur' = 0
    /\ ret_to' = "none"
    /\ size_only' = FALSE
    /\ pre_status' = "INVALID"
    /\ lockf' = <<>>
    /\ wstate' = <<>>
    /\ wi' = <<>>
    /\ wcorr' = <<>>
    /\ claimedBy' = <<>>
    /\ validated' = <<>>
    /\ wal_from' = 0

\* The call of catalog_lock that opens do_validate_last and do_validate.
LockCatalog ==
    IF catalog_lock = -1
    THEN /\ elog_ERROR("cannot open file")
         /\ lock_ret' = -1
    ELSE /\ lock_ret' = catalog_lock
         /\ holders' = IF catalog_lock = 0 THEN holders \cup {Self} ELSE holders
         /\ pc' = "list"
         /\ errmsg' = ""

\* do_validate_last, up to the return of catalog_lock.
do_validate_last_begin ==
    /\ pc \in {"idle", "done", "fatal"}
    /\ op' = "last"
    /\ backup_id' = 0
    /\ satisfied' = {}
    /\ FreshProcess
    /\ LockCatalog
    /\ UNCHANGED <<envVars, catalog>>

\* do_validate(backup_id, target), up to the return of catalog_lock.  The
\* target and the timelines come from collaborators outside this core
\* (checkIfCreateRecoveryConf, get_current_timeline, findNewestTimeLine,
\* get_fullbackup_timeline, readTimeLineHistory), taken as reading only;
\* sat is the set of backups their predicates accept.
do_validate_begin(bid, sat) ==
    /\ pc \in {"idle", "done", "fatal"}
    /\ op' = "validate"
    /\ backup_id' = bid
    /\ satisfied' = sat
    /\ FreshProcess
    /\ LockCatalog
    /\ UNCHANGED <<envVars, catalog>>

\* backups = catalog_get_backup_list(0); do_validate_last sorts the list again
\* by ascending id.
get_backup_list ==
    /\ pc = "list"
    /\ LET l == catalog_get_backup_list(catalog, 0)
       IN backups' = IF op = "last" THEN SortAsc(l) ELSE l
    /\ listed' = [id \in DOMAIN catalog |-> catalog[id].status]
    /\ i' = 0
    /\ pc' = IF op = "last" THEN "last_loop" ELSE "base_scan"
    /\ UNCHANGED <<envVars, opVars, threadVars, catalog, holders, lock_ret,
                   interrupted, base_index, last_restored_index, cur, ret_to,
                   size_only, pre_status, validated, wal_from, errmsg>>

\* do_validate_last: one iteration of the loop over the list, or the
\* cleanup and catalog_unlock after it.
do_validate_last_loop ==
    /\ pc = "last_loop"
    /\ IF i >= Len(backups)
       THEN /\ holders' = catalog_unlock(Self)
            /\ pc' = "done"
            /\ UNCHANGED <<catalog, backups, i, cur, ret_to, size_only,
                           pre_status, validated>>
       ELSE LET b == backups[i + 1]
                b1 == IF CleanExtra(b, another_pg_probackup)
                      THEN [b EXCEPT !.status = "ERROR"]
                      ELSE b
            IN /\ backups' = [backups EXCEPT ![i + 1] = b1]
               /\ catalog' = IF CleanExtra(b, another_pg_probackup)
                             THEN pgBackupWriteIni(catalog, b1)
                             ELSE catalog
               /\ IF ~IsCompleted(b1)
                  THEN /\ i' = i + 1
                       /\ UNCHANGED <<pc, cur, ret_to, size_only, pre_status,
                                      validated>>
                  ELSE /\ CallValidate(b1, "last")
                       /\ UNCHANGED i
               /\ UNCHANGED holders
    /\ UNCHANGED <<envVars, opVars, threadVars, lock_ret, interrupted, listed,
                   base_index, last_restored_index, wal_from, errmsg>>

\* do_validate: the search of the base backup, then either elog(ERROR) or
\* the call of pgBackupValidate on the base backup.
do_validate_base ==
    /\ pc = "base_scan"
    /\ LET r == BaseScan(backups, backup_id, satisfied, 0, FALSE)
       IN IF r.result = "found"
          THEN /\ base_index' = r.index
               /\ i' = r.index
               /\ CallValidate(backups[r.index + 1], "base")
               /\ UNCHANGED <<holders, errmsg>>
          ELSE /\ elog_ERROR(IF r.result = "given"
                             THEN "given backup is not OK or CORRUPT"
                             ELSE "no full backup found, cannot validate.")
               /\ UNCHANGED <<base_index, i, cur, ret_to, size_only,
                              pre_status, validated>>
    /\ UNCHANGED <<envVars, opVars, threadVars, catalog, lock_ret, interrupted,
                   backups, listed, last_restored_index, wal_from>>

\* do_validate: one iteration of the loop over the differential backups,
\* or its end.
do_validate_diff ==
    /\ pc = "diff_loop"
    /\ IF i < 0
       THEN /\ pc' = "wal"
            /\ UNCHANGED <<i, cur, ret_to, size_only, pre_status, validated>>
       ELSE LET step == DiffStep(backups[i + 1], backups[base_index + 1],
                                 backup_id, satisfied)
            IN IF step = "continue"
               THEN /\ i' = i - 1
                    /\ UNCHANGED <<pc, cur, ret_to, size_only, pre_status,
                                   validated>>
               ELSE IF step = "break"
               THEN /\ pc' = "wal"
                    /\ UNCHANGED <<i, cur, ret_to, size_only, pre_status,
                                   validated>>
               ELSE /\ CallValidate(backups[i + 1], "diff")
                    /\ UNCHANGED i
    /\ UNCHANGED <<envVars, opVars, threadVars, catalog, holders, lock_ret,
                   interrupted, backups, listed, base_index,
                   last_restored_index, wal_from, errmsg>>

\* do_validate: validate_wal from the start_lsn of the backup at
\* last_restored_index, then catalog_unlock.
do_validate_wal ==
    /\ pc = "wal"
    /\ wal_from' = backups[last_restored_index + 1].start_time
    /\ holders' = catalog_unlock(Self)
    /\ pc' = "done"
    /\ UNCHANGED <<envVars, opVars, loopVars, threadVars, catalog, lock_ret,
                   interrupted, backups, listed, cur, ret_to, size_only,
                   pre_status, validated, errmsg>>

\* Another instance of the program calls catalog_lock; it goes on to hold
\* the lock when the call returns 0 and ends otherwise.
OtherLock(q) ==
    /\ q \in Others
    /\ q \notin holders
    /\ holders' = IF catalog_lock = 0 THEN holders \cup {q} ELSE holders
    /\ UNCHANGED <<envVars, opVars, loopVars, threadVars, catalog, lock_ret,
                   interrupted, pc, backups, listed, cur, ret_to, size_only,
                   pre_status, validated, wal_from, errmsg>>

\* Another instance of the program calls catalog_unlock and ends.
OtherUnlock(q) ==
    /\ q \in Others
    /\ q \in holders
    /\ holders' = catalog_unlock(q)
    /\ UNCHANGED <<envVars, opVars, loopVars, threadVars, catalog, lock_ret,
                   interrupted, pc, backups, listed, cur, ret_to, size_only,
                   pre_status, validated, wal_from, errmsg>>

(***************************************************************************)
(* SpecEngine: one call pgBackupValidate(backup, size_only, false) on      *)
(* backup 1, for every file list up to MaxFiles entries and every          *)
(* num_threads up to MaxThreads.                                           *)
(***************************************************************************)

ValidModes ==
    {BACKUP_MODE_DIFF_PAGE, BACKUP_MODE_DIFF_PTRACK, BACKUP_MODE_FULL}

\* A pgBackup on timeline 1.  Every backup starts at a checkpoint of its
\* own, so that a later backup has a later start_lsn: the WAL position is
\* counted in backups taken.
Backup(id, m, st) ==
    [start_time |-> id, backup_mode |-> m, status |-> st, tli |-> 1,
     start_lsn |-> id]

NoThreads ==
    /\ lockf = <<>>
    /\ wstate = <<>>
    /\ wi = <<>>
    /\ wcorr = <<>>
    /\ claimedBy = <<>>

\* The text of the backup.ini files is not followed: catalog holds what
\* catalog_read_ini makes of them.
NoStore ==
    /\ dirents = <<>>
    /\ ini = <<>>
    /\ written = <<>>
    /\ ret = [op |-> "none", arg |-> 0, kind |-> "none", backups |-> <<>>]

InitEngine ==
    /\ \E st \in {"DONE", "OK"} :
            catalog = [id \in BackupIds |->
                          IF id = 1 THEN Backup(1, BACKUP_MODE_FULL, st)
                          ELSE Backup(id, BACKUP_MODE_FULL, "OK")]
    /\ \E fl \in SeqsUpTo(FileKinds, MaxFiles) :
            files = [id \in BackupIds |-> IF id = 1 THEN fl ELSE <<>>]
    /\ conf_exists = TRUE
    /\ holders = {}
    /\ lock_ret = -1
    /\ check \in BOOLEAN
    /\ num_threads \in 1..MaxThreads
    /\ interrupted = FALSE
    /\ pc = "validate"
    /\ op = "pgBackupValidate"
    /\ backup_id = 0
    /\ satisfied = {}
    /\ backups = catalog_get_backup_list(catalog, 0)
    /\ listed = [id \in BackupIds |-> catalog[id].status]
    /\ i = 0
    /\ base_index = 0
    /\ last_restored_index = 0
    /\ cur = 1
    /\ ret_to = "call"
    /\ size_only \in BOOLEAN
    /\ pre_status = catalog[1].status
    /\ NoThreads
    /\ NoStore
    /\ validated = <<1>>
    /\ wal_from = 0
    /\ errmsg = ""

NextEngine ==
    \/ pgBackupValidate_start
    \/ \E w \in 1..MaxThreads : pgBackupValidateFiles(w)
    \/ pgBackupValidate_join
    \/ Interrupt

SpecEngine == InitEngine /\ [][NextEngine]_vars

(***************************************************************************)
(* Properties of the validation engine (SpecEngine)                        *)
(***************************************************************************)

\* The threads of the current pgBackupValidate call have been started.
ThreadsStarted == DOMAIN wstate # {}

\* Some worker's test-and-set succeeds in this step.
ClaimsIn(w, k) ==
    /\ pc = "threads"
    /\ k \in DOMAIN claimedBy
    /\ claimedBy'[k] = Append(claimedBy[k], w)

\* An entry that is a regular file, not marked absent, and is missing, has
\* another size than write_size or (unless size_only) another CRC.
EntryIsBad(f) ==
    /\ f.is_reg
    /\ f.write_size # BYTES_INVALID
    /\ \/ f.st_errno = "ENOENT"
       \/ f.st_errno = "OK" /\ f.st_size # f.write_size
       \/ f.st_errno = "OK" /\ ~size_only /\ f.file_crc # f.crc

SomeEntryBad == \E k \in DOMAIN files[cur] : EntryIsBad(files[cur][k])

\* C1: no entry of the file list is ever claimed by two workers (the
\* test-and-set on its lock succeeds at most once), and when the threads
\* have been started and none has run yet every lock is released.
C1_ClaimedByAtMostOne ==
    /\ \A k \in DOMAIN claimedBy : Len(claimedBy[k]) <= 1
    /\ (pc = "threads" /\ \A w \in DOMAIN wi : wi[w] = 0 /\ wstate[w] = "run")
         => \A k \in DOMAIN lockf : lockf[k] = 0

\* C1 witness: two workers have passed the same entry and one claimed it.
C1_Witness ==
    \E k \in DOMAIN claimedBy : \E w \in DOMAIN wi :
        /\ Len(claimedBy[k]) = 1
        /\ claimedBy[k][1] # w
        /\ wi[w] >= k

\* C2 (as stated): once pgBackupValidate has returned, the persisted status
\* is CORRUPT if some entry is bad and OK otherwise.
C2_Original ==
    pc = "done" =>
        catalog[cur].status = IF SomeEntryBad THEN "CORRUPT" ELSE "OK"

\* C2 (amended): once pgBackupValidate has returned without the check option,
\* the persisted status is CORRUPT if some entry is bad and OK otherwise;
\* with the check option the persisted status is the one before the call.
C2_StatusIsVerdict ==
    pc = "done" =>
        IF check THEN catalog[cur].status = pre_status
        ELSE catalog[cur].status = IF SomeEntryBad THEN "CORRUPT" ELSE "OK"

\* C2 witness: a run of two workers over two entries, the CRC of one of them
\* wrong, has returned and CORRUPT replaced the former status.
C2_Witness ==
    /\ pc = "done"
    /\ ~check
    /\ num_threads = 2
    /\ Len(files[cur]) = 2
    /\ \E k \in DOMAIN files[cur] : files[cur][k] = FileBadCrc
    /\ pre_status # "CORRUPT"
    /\ catalog[cur].status = "CORRUPT"

\* C3 (as stated): with fewer workers than entries, after the join every
\* entry has been claimed exactly once.
C3_Original ==
    (pc = "done" /\ ThreadsStarted /\ num_threads < Len(files[cur])) =>
        \A k \in DOMAIN claimedBy : Len(claimedBy[k]) = 1

\* C3 (amended): after the join every entry has been claimed at most once,
\* and exactly once unless every worker has returned at a bad file; then
\* the entries never claimed are the last ones of the list.
C3_Coverage ==
    (pc = "done" /\ ThreadsStarted) =>
        /\ \A k \in DOMAIN claimedBy : Len(claimedBy[k]) <= 1
        /\ (\E w \in DOMAIN wcorr : ~wcorr[w]) =>
               \A k \in DOMAIN claimedBy : Len(claimedBy[k]) = 1
        /\ \A k, j \in DOMAIN claimedBy :
               (k < j /\ Len(claimedBy[k]) = 0) => Len(claimedBy[j]) = 0

\* C3 witness: one worker and two entries, both claimed once, joined.
C3_Witness ==
    /\ pc = "done"
    /\ ThreadsStarted
    /\ num_threads < Len(files[cur])
    /\ \A k \in DOMAIN claimedBy : Len(claimedBy[k]) = 1

\* C4: a worker that claims an entry while the cancellation flag is set ends
\* the run with "interrupted during validate", and after that message the
\* process is dead and the persisted status of the backup is the one before
\* the run.
C4_InterruptedIsFatal ==
    /\ [](errmsg = "interrupted during validate" =>
              /\ pc = "fatal"
              /\ catalog[cur].status = pre_status)
    /\ [][(interrupted /\ \E w \in DOMAIN wi : \E k \in DOMAIN claimedBy :
                              ClaimsIn(w, k))
             => errmsg' = "interrupted during validate"]_vars

\* C4 witness: the run was interrupted after another worker had found a bad
\* file, and the status was neither OK nor CORRUPT before.
C4_Witness ==
    /\ errmsg = "interrupted during validate"
    /\ \E w \in DOMAIN wcorr : wcorr[w]
    /\ pre_status = "DONE"
    /\ catalog[cur].status = "DONE"

\* C5: a worker that claims a bad entry (cancellation not set) marks itself
\* corrupted and returns, the run goes on and no other worker is changed; a
\* corrupted worker claims nothing any more; a worker that has not returned
\* can always take its next step; and a run that returns with a corrupted
\* worker has persisted CORRUPT.
C5_SoftFailure ==
    /\ []((pc = "done" /\ \E w \in DOMAIN wcorr : wcorr[w])
              => catalog[cur].status = "CORRUPT")
    /\ []((pc = "threads") =>
              \A v \in DOMAIN wstate :
                  wstate[v] = "run" => ENABLED pgBackupValidateFiles(v))
    /\ [][\A w \in DOMAIN wcorr : \A k \in DOMAIN claimedBy :
              /\ (wcorr[w] => ~ClaimsIn(w, k))
              /\ (ClaimsIn(w, k) /\ ~interrupted /\ EntryIsBad(files[cur][k]))
                   => /\ wcorr'[w]
                      /\ wstate'[w] = "ret"
                      /\ pc' = "threads"
                      /\ errmsg' = ""
                      /\ \A v \in DOMAIN wstate \ {w} :
                            /\ wstate'[v] = wstate[v]
                            /\ wi'[v] = wi[v]
                            /\ wcorr'[v] = wcorr[v]]_vars

\* C5 witness: a worker returned at a vanished file, another worker claimed
\* a later entry and found it valid, and the run returned with CORRUPT.
C5_Witness ==
    /\ pc = "done"
    /\ catalog[cur].status = "CORRUPT"
    /\ \E k, j \in DOMAIN claimedBy :
          /\ k < j
          /\ files[cur][k] = FileVanished
          /\ files[cur][j] = FileGood
          /\ Len(claimedBy[k]) = 1
          /\ Len(claimedBy[j]) = 1
          /\ claimedBy[k][1] # claimedBy[j][1]
          /\ wcorr[claimedBy[k][1]]
          /\ ~wcorr[claimedBy[j][1]]

(***************************************************************************)
(* Spec: runs of do_validate_last and do_validate, one after the other,    *)
(* over a catalog of two backups, next to other instances of the program.  *)
(***************************************************************************)

Init ==
    /\ \E st \in [BackupIds -> BackupStatus],
          m \in ValidModes :
            catalog = [id \in BackupIds |->
                          Backup(id, IF id = 1 THEN BACKUP_MODE_FULL ELSE m,
                                 st[id])]
    /\ files \in [BackupIds -> {<<FileGood>>, <<FileBadCrc>>}]
    /\ conf_exists \in BOOLEAN
    /\ holders = {}
    /\ lock_ret = -1
    /\ check \in BOOLEAN
    /\ num_threads = 1
    /\ interrupted = FALSE
    /\ pc = "idle"
    /\ op = "none"
    /\ backup_id = 0
    /\ satisfied = {}
    /\ backups = <<>>
    /\ listed = [id \in BackupIds |-> "INVALID"]
    /\ i = 0
    /\ base_index = 0
    /\ last_restored_index = 0
    /\ cur = 0
    /\ ret_to = "none"
    /\ size_only = FALSE
    /\ pre_status = "INVALID"
    /\ NoThreads
    /\ NoStore
    /\ validated = <<>>
    /\ wal_from = 0
    /\ errmsg = ""

Next ==
    \/ do_validate_last_begin
    \/ \E bid \in {0} \cup BackupIds, sat \in SUBSET BackupIds :
            do_validate_begin(bid, sat)
    \/ get_backup_list
    \/ do_validate_last_loop
    \/ do_validate_base
    \/ do_validate_diff
    \/ do_validate_wal
    \/ pgBackupValidate_start
    \/ \E w \in 1..MaxThreads : pgBackupValidateFiles(w)
    \/ pgBackupValidate_join
    \/ Interrupt
    \/ \E q \in Others : OtherLock(q)
    \/ \E q \in Others : OtherUnlock(q)

Spec == Init /\ [][Next]_vars

(***************************************************************************)
(* Properties of do_validate_last, do_validate and the catalog lock (Spec) *)
(***************************************************************************)

\* The list has been read by the running operation.
Listed == pc \in {"last_loop", "base_scan", "diff_loop", "wal", "validate",
                  "threads", "done"}

WasValidated(id) == \E k \in DOMAIN validated : validated[k] = id

\* Every file of the backup is on disk with the size and CRC of the list.
Intact(id) ==
    \A k \in DOMAIN files[id] :
        /\ files[id][k].st_errno = "OK"
        /\ files[id][k].st_size = files[id][k].write_size
        /\ files[id][k].file_crc = files[id][k].crc

\* C6: in do_validate_last a backup listed as RUNNING or DELETING is written
\* as ERROR iff catalog_lock returned 0; when it returned 1 such a backup
\* keeps its status, and every backup listed as DONE is still validated.
C6_CleanOnlyWithLock ==
    (op = "last" /\ pc = "done") =>
        \A id \in BackupIds :
            /\ listed[id] \in {"RUNNING", "DELETING"} =>
                  /\ catalog[id].status = "ERROR" <=> lock_ret = 0
                  /\ lock_ret = 1 => catalog[id].status = listed[id]
            /\ (lock_ret = 1 /\ listed[id] = "DONE") => WasValidated(id)

\* C6 witness: another instance held the lock; do_validate_last has left a
\* RUNNING backup alone and has validated a DONE backup.
C6_Witness ==
    /\ op = "last"
    /\ pc = "done"
    /\ lock_ret = 1
    /\ ~check
    /\ \E id, id2 \in BackupIds :
          /\ listed[id] = "RUNNING"
          /\ catalog[id].status = "RUNNING"
          /\ listed[id2] = "DONE"
          /\ WasValidated(id2)
          /\ catalog[id2].status \in {"OK", "CORRUPT"}

\* C7 (as stated): do_validate_last hands to pgBackupValidate the backups
\* listed as DONE and no other, and when it has returned each of them is OK
\* or CORRUPT and no backup is DONE.
C7_Original ==
    /\ (op = "last" /\ Listed) =>
          \A k \in DOMAIN validated : listed[validated[k]] = "DONE"
    /\ (op = "last" /\ pc = "done") =>
          \A id \in BackupIds :
              /\ listed[id] = "DONE" =>
                    /\ WasValidated(id)
                    /\ catalog[id].status \in {"OK", "CORRUPT"}
              /\ catalog[id].status # "DONE"

\* C7 (amended): do_validate_last hands to pgBackupValidate the backups
\* listed as DONE and no other; when it has returned without the check
\* option each of them is OK or CORRUPT and no backup is DONE, and with the
\* check option each of them is still DONE.
C7_ValidatesDone ==
    /\ (op = "last" /\ Listed) =>
          \A k \in DOMAIN validated : listed[validated[k]] = "DONE"
    /\ (op = "last" /\ pc = "done") =>
          \A id \in BackupIds :
              /\ listed[id] = "DONE" =>
                    /\ WasValidated(id)
                    /\ ~check => catalog[id].status \in {"OK", "CORRUPT"}
                    /\ check => catalog[id].status = "DONE"
              /\ ~check => catalog[id].status # "DONE"

\* C7 witness: do_validate_last holding the lock has returned; a backup
\* listed as RUNNING is ERROR and was not validated, a DONE one is OK.
C7_Witness ==
    /\ op = "last"
    /\ pc = "done"
    /\ ~check
    /\ \E id, id2 \in BackupIds :
          /\ listed[id] = "RUNNING"
          /\ catalog[id].status = "ERROR"
          /\ ~WasValidated(id)
          /\ listed[id2] = "DONE"
          /\ WasValidated(id2)
          /\ catalog[id2].status = "OK"

\* C8 (as stated): no step changes the status of a backup that is OK or
\* DELETED.
C8_Original ==
    [][\A id \in BackupIds :
          catalog[id].status \in {"OK", "DELETED"} =>
              catalog'[id].status = catalog[id].status]_vars

\* C8 (amended): no step changes the status of a DELETED backup; no step of
\* do_validate_last changes the status of an OK backup; a step of do_validate
\* changes the status of an OK backup to CORRUPT only.
C8_DeletedTerminal ==
    [][\A id \in BackupIds :
          /\ catalog[id].status = "DELETED" => catalog'[id].status = "DELETED"
          /\ catalog[id].status = "OK" =>
                /\ catalog'[id].status \in {"OK", "CORRUPT"}
                /\ op = "last" => catalog'[id].status = "OK"]_vars

\* C8 witness: do_validate has returned; an OK backup is now CORRUPT and a
\* DELETED backup is still DELETED.
C8_Witness ==
    /\ op = "validate"
    /\ pc = "done"
    /\ \E id, id2 \in BackupIds :
          /\ listed[id] = "OK"
          /\ catalog[id].status = "CORRUPT"
          /\ listed[id2] = "DELETED"
          /\ catalog[id2].status = "DELETED"

\* The run do_validate(backup_id = id) that suits backup id best: id is a
\* full backup with intact files that satisfies the target, listed with
\* status st; the run is not cancelled and the check option is off.
AnchoredRunEnded(id, st) ==
    /\ op = "validate"
    /\ pc \in {"done", "fatal"}
    /\ conf_exists
    /\ ~check
    /\ ~interrupted
    /\ backup_id = id
    /\ listed[id] = st
    /\ catalog[id].backup_mode = BACKUP_MODE_FULL
    /\ id \in satisfied
    /\ Intact(id)

\* C9 (as stated): a CORRUPT and an ERROR backup with intact files are
\* handed to pgBackupValidate and become OK, here by do_validate on that
\* backup.
C9_Original ==
    \A id \in BackupIds : \A st \in {"CORRUPT", "ERROR"} :
        AnchoredRunEnded(id, st) =>
            /\ WasValidated(id)
            /\ catalog[id].status = "OK"

\* C9 (amended): a CORRUPT backup with intact files is handed to
\* pgBackupValidate and becomes OK by do_validate on that backup; a backup
\* in ERROR is never handed to pgBackupValidate (every backup handed over
\* was listed as DONE, OK or CORRUPT) and no step changes its status.
C9_Revalidation ==
    /\ [](\A id \in BackupIds :
              AnchoredRunEnded(id, "CORRUPT") =>
                  /\ pc = "done"
                  /\ WasValidated(id)
                  /\ catalog[id].status = "OK")
    /\ [](Listed =>
              \A k \in DOMAIN validated :
                  /\ listed[validated[k]] \in {"DONE", "OK", "CORRUPT"}
                  /\ catalog[validated[k]].status # "ERROR")
    /\ [][\A id \in BackupIds :
              catalog[id].status = "ERROR" => catalog'[id].status = "ERROR"]_vars

\* C9 witness: do_validate on a CORRUPT backup with intact files has
\* returned and the backup is OK.
C9_Witness ==
    \E id \in BackupIds :
        /\ AnchoredRunEnded(id, "CORRUPT")
        /\ pc = "done"
        /\ WasValidated(id)
        /\ catalog[id].status = "OK"

\* A call of catalog_lock by Self.
SelfLocks ==
    \/ do_validate_last_begin
    \/ \E bid \in {0} \cup BackupIds, sat \in SUBSET BackupIds :
            do_validate_begin(bid, sat)

\* C10: at most one process holds the catalog lock; a process that does not
\* hold it can always call catalog_lock (the call never waits); and a call
\* made while another process holds the lock returns 1, is not an elog(ERROR)
\* and leaves the lock with its holder.
C10_LockExclusiveNonBlocking ==
    /\ [](Cardinality(holders) <= 1)
    /\ [](\A q \in Others : q \notin holders => ENABLED OtherLock(q))
    /\ [](pc \in {"idle", "done", "fatal"} => ENABLED do_validate_last_begin)
    /\ [][/\ (SelfLocks /\ holders # {}) =>
                /\ lock_ret' = 1
                /\ pc' = "list"
                /\ errmsg' = ""
                /\ holders' = holders
          /\ \A q \in Others :
                (OtherLock(q) /\ holders # {}) =>
                    /\ catalog_lock = 1
                    /\ holders' = holders]_vars

\* C10 witness: Self called catalog_lock while another instance held the
\* lock, got 1, and the other instance still holds the lock.
C10_Witness ==
    /\ pc = "list"
    /\ lock_ret = 1
    /\ \E q \in Others : holders = {q}

(***************************************************************************)
(* SpecChain: runs of do_validate over a catalog of three backups of any   *)
(* mode and timeline, for every backup_id and every target.                *)
(***************************************************************************)

ChainIds == {1, 2, 3}    \* start_time of the backups in the catalog
Timelines == {1, 2}

SetMax(S) == CHOOSE x \in S : \A y \in S : y <= x
SetMin(S) == CHOOSE x \in S : \A y \in S : x <= y

\* A backup_id that no backup of the catalog has.
NoSuchId == SetMax(ChainIds) + 1

InitChain ==
    /\ \E m \in [ChainIds -> ValidModes],
          st \in [ChainIds -> {"OK", "CORRUPT", "ERROR"}],
          t \in [ChainIds -> Timelines] :
            /\ m[1] # BACKUP_MODE_DIFF_PTRACK
            /\ m[2] # BACKUP_MODE_DIFF_PTRACK
            /\ t[1] = 1
            /\ catalog = [id \in ChainIds |->
                             [Backup(id, m[id], st[id]) EXCEPT !.tli = t[id]]]
    /\ files = [id \in ChainIds |-> <<FileGood>>]
    /\ conf_exists = TRUE
    /\ holders = {}
    /\ lock_ret = -1
    /\ check = FALSE
    /\ num_threads = 1
    /\ interrupted = FALSE
    /\ pc = "idle"
    /\ op = "none"
    /\ backup_id = 0
    /\ satisfied = {}
    /\ backups = <<>>
    /\ listed = [id \in ChainIds |-> "INVALID"]
    /\ i = 0
    /\ base_index = 0
    /\ last_restored_index = 0
    /\ cur = 0
    /\ ret_to = "none"
    /\ size_only = FALSE
    /\ pre_status = "INVALID"
    /\ NoThreads
    /\ NoStore
    /\ validated = <<>>
    /\ wal_from = 0
    /\ errmsg = ""

NextChain ==
    \/ \E bid \in {0, NoSuchId} \cup ChainIds, sat \in SUBSET ChainIds :
            do_validate_begin(bid, sat)
    \/ get_backup_list
    \/ do_validate_base
    \/ do_validate_diff
    \/ do_validate_wal
    \/ pgBackupValidate_start
    \/ \E w \in 1..MaxThreads : pgBackupValidateFiles(w)
    \/ pgBackupValidate_join

SpecChain == InitChain /\ [][NextChain]_vars

(***************************************************************************)
(* Properties of the selection of the base backup and of the differential  *)
(* backups (SpecChain)                                                     *)
(***************************************************************************)

\* do_validate has found its base backup (and has called pgBackupValidate).
BaseFound ==
    /\ op = "validate"
    /\ pc \in {"validate", "threads", "diff_loop", "wal", "done"}

\* do_validate has ended in the search of the base backup.
BaseNotFound == op = "validate" /\ pc = "fatal"

Base == validated[1]

\* The full backups listed as OK or CORRUPT that satisfy the timeline and
\* the target.
Candidates ==
    {id \in DOMAIN catalog :
        /\ catalog[id].backup_mode = BACKUP_MODE_FULL
        /\ listed[id] \in {"OK", "CORRUPT"}
        /\ id \in satisfied}

\* The catalog FULL(1), DIFF(2), FULL(3), all OK on timeline 1, with a
\* target that 1 and 2 satisfy, and backup_id 0.
Example11 ==
    /\ op = "validate"
    /\ backup_id = 0
    /\ satisfied = {1, 2}
    /\ catalog[1].backup_mode = BACKUP_MODE_FULL
    /\ catalog[2].backup_mode = BACKUP_MODE_DIFF_PAGE
    /\ catalog[3].backup_mode = BACKUP_MODE_FULL
    /\ \A id \in DOMAIN catalog : listed[id] = "OK" /\ catalog[id].tli = 1

\* C11: with backup_id = 0 the base backup of do_validate is the newest full
\* backup that is OK or CORRUPT and satisfies the timeline and the target;
\* when there is none do_validate ends with "no full backup found"; and in
\* the catalog FULL(1), DIFF(2), FULL(3) with a target that 1 and 2 satisfy
\* the base is 1, 2 is validated after it and 3 is not validated.
C11_BaseIsNewestCandidate ==
    (op = "validate" /\ backup_id = 0) =>
        /\ BaseFound =>
              /\ Candidates # {}
              /\ Base = SetMax(Candidates)
              /\ backups[base_index + 1].start_time = Base
        /\ BaseNotFound =>
              /\ Candidates = {}
              /\ errmsg = "no full backup found, cannot validate."
              /\ validated = <<>>
        /\ (Example11 /\ pc = "done") => validated = <<1, 2>>

\* C11 witness: the run on the example catalog has returned with base 1 and
\* differential backup 2, although the full backup 3 is newer.
C11_Witness ==
    /\ Example11
    /\ pc = "done"
    /\ validated = <<1, 2>>
    /\ base_index = 2

(***************************************************************************)
(* Properties of the failures of do_validate (Spec)                        *)
(***************************************************************************)

\* do_validate has read the list and is past the search of the base backup.
PastBaseScan ==
    /\ op = "validate"
    /\ pc \in {"validate", "threads", "diff_loop", "wal", "done", "fatal"}
    /\ errmsg # "cannot open file"

GivenIsUnusable == "given backup is not OK or CORRUPT"
NoFullBackup == "no full backup found, cannot validate."

\* C12: do_validate ends with elog(ERROR) when the backup with the given
\* backup_id is listed with a status other than OK and CORRUPT, and (shown
\* here for backup_id = 0) when no backup qualifies as base; after either
\* message no backup has been handed to pgBackupValidate, every persisted
\* status is the one that was listed, validate_wal has not been called and
\* the process does not hold the catalog lock.
C12_FatalBeforeValidation ==
    /\ (PastBaseScan /\ backup_id # 0
          /\ listed[backup_id] \notin {"OK", "CORRUPT"}) =>
            /\ pc = "fatal"
            /\ errmsg = GivenIsUnusable
    /\ (PastBaseScan /\ backup_id = 0 /\ Candidates = {}) =>
            /\ pc = "fatal"
            /\ errmsg = NoFullBackup
    /\ (op = "validate" /\ errmsg \in {GivenIsUnusable, NoFullBackup}) =>
            /\ pc = "fatal"
            /\ validated = <<>>
            /\ wal_from = 0
            /\ \A id \in DOMAIN catalog : catalog[id].status = listed[id]
            /\ Self \notin holders

\* C12 witness: do_validate held the catalog lock, was given a backup that
\* is RUNNING, and has ended with the message about the given backup while
\* the other backup is a full backup that is OK and satisfies the target.
C12_Witness ==
    /\ op = "validate"
    /\ pc = "fatal"
    /\ lock_ret = 0
    /\ backup_id = 2
    /\ listed[2] = "RUNNING"
    /\ errmsg = GivenIsUnusable
    /\ listed[1] = "OK"
    /\ 1 \in satisfied
    /\ catalog[2].status = "RUNNING"

(***************************************************************************)
(* catalog.c: the text of backup.ini.  A backup.ini is a function from the *)
(* keys it holds to their values; a number in hexadecimal or in base 36 is *)
(* the sequence of its digits, and an XLogRecPtr is its sixteen            *)
(* hexadecimal digits, so that shifting by 32 bits is taking eight digits. *)
(***************************************************************************)

HexDigits == 0..15

RECURSIVE StripZeros(_)
StripZeros(s) ==
    IF Len(s) > 1 /\ Head(s) = 0 THEN StripZeros(Tail(s)) ELSE s

RECURSIVE PadZeros(_, _)
PadZeros(s, n) == IF Len(s) >= n THEN s ELSE PadZeros(<<0>> \o s, n)

\* (uint32) (lsn >> 32) and (uint32) lsn
HighHalf(lsn) == SubSeq(lsn, 1, 8)
LowHalf(lsn) == SubSeq(lsn, 9, 16)

\* fprintf(out, "%x/%08x", (uint32) (lsn >> 32), (uint32) lsn)
FormatLsn(lsn) ==
    [hi |-> StripZeros(HighHalf(lsn)), lo |-> PadZeros(LowHalf(lsn), 8),
     sep |-> TRUE]

\* sscanf(.., "%X", &u): the digits read into a uint32.
ScanHex(s) == SubSeq(PadZeros(s, 8), Len(PadZeros(s, 8)) - 7,
                     Len(PadZeros(s, 8)))

\* sscanf(value, "%X/%X", &xlogid, &xrecoff) == 2 and
\* ((uint64) xlogid << 32) | xrecoff; otherwise the lsn is left as it is.
ScanLsn(value, old) ==
    IF value.sep /\ value.hi # <<>> /\ value.lo # <<>>
    THEN ScanHex(value.hi) \o ScanHex(value.lo)
    ELSE old

ZeroLsn == [k \in 1..16 |-> 0]

\* base36enc and base36dec: the number in base 36, most significant digit
\* first.
RECURSIVE base36enc(_)
base36enc(n) ==
    IF n < 36 THEN <<n>> ELSE Append(base36enc(n \div 36), n % 36)

RECURSIVE base36dec(_)
base36dec(s) ==
    IF s = <<>> THEN 0
    ELSE 36 * base36dec(SubSeq(s, 1, Len(s) - 1)) + s[Len(s)]

\* time2iso and the parser of an option of type 't'.
time2iso(t) == <<"iso", t>>
parse_time(v) == v[2]

\* status2str: the name of the status; an INVALID status has no name that
\* catalog_read_ini knows.
status2str(st) == IF st = "INVALID" THEN "UNKNOWN" ELSE st

\* A function of one key.
Pair(key, value) == [k \in {key} |-> value]

\* static const char *modes[] = { "", "PAGE", "PTRACK", "FULL"}
ModeName(m) ==
    IF m = BACKUP_MODE_DIFF_PAGE THEN "PAGE"
    ELSE IF m = BACKUP_MODE_DIFF_PTRACK THEN "PTRACK"
    ELSE IF m = BACKUP_MODE_FULL THEN "FULL"
    ELSE ""

pgBackupWriteConfigSection(b) == Pair("BACKUP_MODE", ModeName(b.backup_mode))

pgBackupWriteResultSection(b) ==
    Pair("TIMELINEID", b.tli)
    @@ Pair("START_LSN", FormatLsn(b.start_lsn))
    @@ Pair("STOP_LSN", FormatLsn(b.stop_lsn))
    @@ Pair("START_TIME", time2iso(b.start_time))
    @@ (IF b.end_time > 0 THEN Pair("END_TIME", time2iso(b.end_time))
        ELSE <<>>)
    @@ Pair("RECOVERY_XID", b.recovery_xid)
    @@ (IF b.recovery_time > 0
        THEN Pair("RECOVERY_TIME", time2iso(b.recovery_time))
        ELSE <<>>)
    @@ (IF b.data_bytes # BYTES_INVALID THEN Pair("DATA_BYTES", b.data_bytes)
        ELSE <<>>)
    @@ Pair("BLOCK_SIZE", b.block_size)
    @@ Pair("XLOG_BLOCK_SIZE", b.wal_block_size)
    @@ Pair("CHECKSUM_VERSION", b.checksum_version)
    @@ Pair("STREAM", IF b.stream THEN 1 ELSE 0)
    @@ Pair("STATUS", status2str(b.status))
    @@ (IF b.parent_backup # 0
        THEN Pair("PARENT_BACKUP", base36enc(b.parent_backup))
        ELSE <<>>)

\* The text pgBackupWriteIni writes for b.
IniText(b) == pgBackupWriteConfigSection(b) @@ pgBackupWriteResultSection(b)

\* pgut_new and catalog_init_config: the fields catalog_init_config does not
\* set hold what the allocated memory held (junk).
catalog_init_config(junk) ==
    [backup_mode |-> BACKUP_MODE_INVALID, status |-> "INVALID", tli |-> 0,
     start_lsn |-> ZeroLsn, stop_lsn |-> ZeroLsn, start_time |-> 0,
     end_time |-> 0, recovery_xid |-> 0, recovery_time |-> 0,
     data_bytes |-> BYTES_INVALID, stream |-> FALSE, parent_backup |-> 0,
     block_size |-> junk, wal_block_size |-> junk,
     checksum_version |-> junk]

\* parse_backup_mode: the mode, or BACKUP_MODE_INVALID for the elog(ERROR)
\* after which nothing is returned.
parse_backup_mode(value) ==
    IF value = "FULL" THEN BACKUP_MODE_FULL
    ELSE IF value = "PAGE" THEN BACKUP_MODE_DIFF_PAGE
    ELSE IF value = "PTRACK" THEN BACKUP_MODE_DIFF_PTRACK
    ELSE BACKUP_MODE_INVALID

\* The STATUS values catalog_read_ini knows; any other one is a WARNING and
\* the status is left as it is.
KnownStatus ==
    {"OK", "RUNNING", "ERROR", "DELETING", "DELETED", "DONE", "CORRUPT"}

\* pgut_readopt: the value of key in the text, or dflt when the text has
\* no line for key.
Opt(text, key, dflt) == IF key \in DOMAIN text THEN text[key] ELSE dflt

\* catalog_read_ini on a backup.ini f = [errno, text]: "null" when
\* access() fails, "error" for the elog(ERROR) of parse_backup_mode, and
\* the pgBackup otherwise.
catalog_read_ini(f, junk) ==
    IF f.errno # "OK"
    THEN [kind |-> "null", backup |-> catalog_init_config(junk)]
    ELSE LET t == f.text
             d == catalog_init_config(junk)
             b == [backup_mode |->
                       IF "BACKUP_MODE" \in DOMAIN t
                       THEN parse_backup_mode(t["BACKUP_MODE"])
                       ELSE d.backup_mode,
                   tli |-> Opt(t, "TIMELINEID", d.tli),
                   start_lsn |->
                       IF "START_LSN" \in DOMAIN t
                       THEN ScanLsn(t["START_LSN"], d.start_lsn)
                       ELSE d.start_lsn,
                   stop_lsn |->
                       IF "STOP_LSN" \in DOMAIN t
                       THEN ScanLsn(t["STOP_LSN"], d.stop_lsn)
                       ELSE d.stop_lsn,
                   start_time |->
                       IF "START_TIME" \in DOMAIN t
                       THEN parse_time(t["START_TIME"]) ELSE d.start_time,
                   end_time |->
                       IF "END_TIME" \in DOMAIN t
                       THEN parse_time(t["END_TIME"]) ELSE d.end_time,
                   recovery_xid |-> Opt(t, "RECOVERY_XID", d.recovery_xid),
                   recovery_time |->
                       IF "RECOVERY_TIME" \in DOMAIN t
                       THEN parse_time(t["RECOVERY_TIME"])
                       ELSE d.recovery_time,
                   data_bytes |-> Opt(t, "DATA_BYTES", d.data_bytes),
                   block_size |-> Opt(t, "BLOCK_SIZE", d.block_size),
                   wal_block_size |->
                       Opt(t, "XLOG_BLOCK_SIZE", d.wal_block_size),
                   checksum_version |->
                       Opt(t, "CHECKSUM_VERSION", d.checksum_version),
                   stream |->
                       IF "STREAM" \in DOMAIN t THEN t["STREAM"] # 0
                       ELSE d.stream,
                   status |->
                       IF "STATUS" \in DOMAIN t /\ t["STATUS"] \in KnownStatus
                       THEN t["STATUS"] ELSE d.status,
                   parent_backup |->
                       IF "PARENT_BACKUP" \in DOMAIN t
                       THEN base36dec(t["PARENT_BACKUP"])
                       ELSE d.parent_backup]
         IN IF "BACKUP_MODE" \in DOMAIN t
               /\ parse_backup_mode(t["BACKUP_MODE"]) = BACKUP_MODE_INVALID
            THEN [kind |-> "error", backup |-> d]
            ELSE [kind |-> "backup", backup |-> b]

\* catalog_get_backup_list(filter) over the directory: the loop over
\* readdir() from entry k on, with the backups appended so far.
RECURSIVE ScanDir(_, _, _, _, _, _)
ScanDir(dir, inis, filter, junk, k, acc) ==
    IF k > Len(dir) THEN [kind |-> "list", backups |-> SortDesc(acc)]
    ELSE LET f == inis[dir[k]]
             r == catalog_read_ini(f, junk)
             keep == /\ r.kind = "backup"
                     /\ (filter = 0 \/ filter = r.backup.start_time)
         IN IF r.kind = "error" THEN [kind |-> "error", backups |-> <<>>]
            ELSE IF f.errno \notin {"OK", "ENOENT"}
            THEN [kind |-> "null", backups |-> <<>>]
            ELSE ScanDir(dir, inis, filter, junk, k + 1,
                         IF keep THEN Append(acc, r.backup) ELSE acc)

(***************************************************************************)
(* SpecStore: calls of pgBackupWriteIni, catalog_read_ini and              *)
(* catalog_get_backup_list on a backups directory of three entries.        *)
(***************************************************************************)

StoreIds == {40, 50, 60}     \* start_time of the backups of the directory
Varied == 50                 \* the backup written with every mode and status

ExampleLsn == <<0, 0, 0, 0, 0, 0, 0, 1, 8, 9, 10, 11, 12, 13, 14, 15>>
LowZerosLsn == <<0, 0, 0, 0, 0, 0, 1, 0, 0, 0, 0, 0, 0, 0, 1, 0>>

\* A pgBackup with start_time id: with every optional field unset
\* (~set), or with every field set.
StoreRecord(id, m, st, set) ==
    [backup_mode |-> m, status |-> st, start_time |-> id,
     tli |-> IF set THEN 2 ELSE 1,
     start_lsn |-> IF set THEN ExampleLsn ELSE ZeroLsn,
     stop_lsn |-> IF set THEN LowZerosLsn ELSE ZeroLsn,
     end_time |-> IF set THEN id + 1 ELSE 0,
     recovery_xid |-> IF set THEN 7 ELSE 0,
     recovery_time |-> IF set THEN id + 1 ELSE 0,
     data_bytes |-> IF set THEN 5 ELSE BYTES_INVALID,
     block_size |-> 8192, wal_block_size |-> 8192,
     checksum_version |-> IF set THEN 1 ELSE 0,
     stream |-> set,
     parent_backup |-> IF set THEN 40 ELSE 0]

AllModes ==
    {BACKUP_MODE_INVALID, BACKUP_MODE_DIFF_PAGE, BACKUP_MODE_DIFF_PTRACK,
     BACKUP_MODE_FULL}

\* The backups given to pgBackupWriteIni: one of every mode, with the
\* optional fields unset and set, and one of every status, for one entry
\* of the directory, and a full backup or one without mode for the others.
StoreRecords ==
    {StoreRecord(Varied, m, "OK", set) : m \in AllModes, set \in BOOLEAN}
    \cup {StoreRecord(Varied, BACKUP_MODE_FULL, st, FALSE) :
            st \in BackupStatus}
    \cup {StoreRecord(id, m, "OK", FALSE) :
            id \in StoreIds \ {Varied},
            m \in {BACKUP_MODE_FULL, BACKUP_MODE_INVALID}}

Permutations3(S) ==
    {p \in [1..Cardinality(S) -> S] :
        \A k, j \in 1..Cardinality(S) : k # j => p[k] # p[j]}

NoFile(e) == [errno |-> e, text |-> <<>>]

\* The backup.ini of a full backup that another version of the program has
\* left with a BACKUP_MODE that modes[] does not hold.
ForeignIni(id) ==
    [errno |-> "OK",
     text |-> [IniText(StoreRecord(id, BACKUP_MODE_FULL, "OK", FALSE))
                  EXCEPT !["BACKUP_MODE"] = "ARCHIVE"]]

\* The directory of every backup exists, in any readdir() order, and no
\* backup.ini has been written yet by this program; the newest one may be
\* out of reach and the oldest one may be of another version.
InitStore ==
    /\ dirents \in Permutations3(StoreIds)
    /\ \E e \in {"ENOENT", "EACCES"}, foreign \in BOOLEAN :
          ini = [id \in StoreIds |->
                    IF id = SetMax(StoreIds) THEN NoFile(e)
                    ELSE IF foreign /\ id = SetMin(StoreIds)
                    THEN ForeignIni(id)
                    ELSE NoFile("ENOENT")]
    /\ written = [id \in StoreIds |-> <<>>]
    /\ ret = [op |-> "none", arg |-> 0, kind |-> "none", backups |-> <<>>]
    /\ catalog = <<>>
    /\ files = <<>>
    /\ conf_exists = TRUE
    /\ holders = {}
    /\ lock_ret = -1
    /\ check = FALSE
    /\ num_threads = 1
    /\ interrupted = FALSE
    /\ pc = "store"
    /\ op = "none"
    /\ backup_id = 0
    /\ satisfied = {}
    /\ backups = <<>>
    /\ listed = <<>>
    /\ i = 0
    /\ base_index = 0
    /\ last_restored_index = 0
    /\ cur = 0
    /\ ret_to = "none"
    /\ size_only = FALSE
    /\ pre_status = "INVALID"
    /\ NoThreads
    /\ validated = <<>>
    /\ wal_from = 0
    /\ errmsg = ""

procVars ==
    <<catalog, files, conf_exists, holders, lock_ret, check, num_threads,
      interrupted, pc, op, backup_id, satisfied, backups, listed, i,
      base_index, last_restored_index, cur, ret_to, size_only, pre_status,
      lockf, wstate, wi, wcorr, claimedBy, validated, wal_from, errmsg>>

\* pgBackupWriteIni(b): fopen(ini_path, "wt") or elog(ERROR), then the two
\* sections.
StoreWrite(b) ==
    /\ pc = "store"
    /\ IF ini[b.start_time].errno = "EACCES"
       THEN /\ ret' = [op |-> "write", arg |-> b.start_time,
                       kind |-> "error", backups |-> <<>>]
            /\ UNCHANGED <<ini, written>>
       ELSE /\ ini' = [ini EXCEPT ![b.start_time] =
                          [errno |-> "OK", text |-> IniText(b)]]
            /\ written' = [written EXCEPT ![b.start_time] = <<b>>]
            /\ ret' = [op |-> "write", arg |-> b.start_time,
                       kind |-> "void", backups |-> <<>>]
    /\ UNCHANGED <<dirents, procVars>>

\* catalog_read_ini of the backup.ini of entry id.
StoreRead(id) ==
    /\ pc = "store"
    /\ \E junk \in {0, 1} :
          LET r == catalog_read_ini(ini[id], junk)
          IN ret' = [op |-> "read", arg |-> id, kind |-> r.kind,
                     backups |-> IF r.kind = "backup" THEN <<r.backup>>
                                 ELSE <<>>]
    /\ UNCHANGED <<dirents, ini, written, procVars>>

\* catalog_get_backup_list(filter)
StoreList(filter) ==
    /\ pc = "store"
    /\ \E junk \in {0, 1} :
          LET r == ScanDir(dirents, ini, filter, junk, 1, <<>>)
          IN ret' = [op |-> "list", arg |-> filter, kind |-> r.kind,
                     backups |-> r.backups]
    /\ UNCHANGED <<dirents, ini, written, procVars>>

NextStore ==
    \/ \E b \in StoreRecords : StoreWrite(b)
    \/ \E id \in StoreIds : StoreRead(id)
    \/ \E filter \in {0} \cup StoreIds \cup {SetMax(StoreIds) + 1} :
            StoreList(filter)

SpecStore == InitStore /\ [][NextStore]_vars

(***************************************************************************)
(* Properties of the catalog store (SpecStore)                             *)
(***************************************************************************)

\* The entries whose backup.ini can be read.
Readable == {id \in DOMAIN ini : ini[id].errno = "OK"}

\* The pgBackup that the backup.ini of entry id holds.
Decoded(id) == catalog_read_ini(ini[id], 0).backup

ListReturned == ret.op = "list" /\ ret.kind = "list"

ReadAfterWrite == ret.op = "read" /\ written[ret.arg] # <<>>

\* C14: catalog_read_ini on the backup.ini that pgBackupWriteIni wrote for a
\* backup returns a backup equal to it in every field, for every mode and
\* every status.
C14_RoundTrip ==
    ReadAfterWrite =>
        /\ ret.kind = "backup"
        /\ ret.backups = written[ret.arg]

(***************************************************************************)
(* Properties of what a run of pgBackupValidate persists (SpecEngine)      *)
(***************************************************************************)

SomeWorkerRuns == \E w \in DOMAIN wstate : wstate[w] = "run"

\* C15: from the call of pgBackupValidate until it returns, and after an
\* elog(ERROR), the persisted status of the backup is the one before the
\* call; the catalog is written in one step only, which is taken when
\* every worker thread has returned, ends the run and changes nothing but
\* the status of that backup.
C15_WrittenOnceAfterJoin ==
    /\ [](pc \in {"validate", "threads", "fatal"} =>
              catalog[cur].status = pre_status)
    /\ [][catalog' # catalog =>
              /\ pc = "threads"
              /\ ~SomeWorkerRuns
              /\ pc' = "done"
              /\ catalog' =
                    [catalog EXCEPT ![cur].status = catalog'[cur].status]]_vars
    /\ [][pc = "done" => catalog' = catalog]_vars

\* C15 witness: a worker has found a bad file and returned, another worker
\* is still running, and the persisted status is still DONE.
C15_Witness ==
    /\ pc = "threads"
    /\ \E w \in DOMAIN wcorr : wcorr[w] /\ wstate[w] = "ret"
    /\ SomeWorkerRuns
    /\ pre_status = "DONE"
    /\ catalog[cur].status = "DONE"

\* stat() of the file of the entry fails with an errno other than ENOENT
\* (the entry is a regular file that is not marked absent).
StatFails(f) ==
    /\ f.is_reg
    /\ f.write_size # BYTES_INVALID
    /\ f.st_errno \notin {"OK", "ENOENT"}

\* C16: a worker that claims an entry whose stat() fails with an errno other
\* than ENOENT ends the run with elog(ERROR) in that step, without a write
\* to the catalog; after an elog(ERROR) no step is taken and the persisted
\* status is the one before the run.
C16_StatErrorIsFatal ==
    /\ [](pc = "fatal" =>
              /\ errmsg \in {"cannot stat backup file",
                             "interrupted during validate"}
              /\ catalog[cur].status = pre_status)
    /\ [][pc # "fatal"]_vars
    /\ [][\A w \in DOMAIN wi : \A k \in DOMAIN claimedBy :
              (ClaimsIn(w, k) /\ StatFails(files[cur][k])) =>
                  /\ pc' = "fatal"
                  /\ catalog' = catalog
                  /\ ~interrupted => errmsg' = "cannot stat backup file"]_vars

\* C16 witness: the run has ended with the stat error after another worker
\* had found a bad file, and the persisted status is still DONE.
C16_Witness ==
    /\ pc = "fatal"
    /\ errmsg = "cannot stat backup file"
    /\ \E w \in DOMAIN wcorr : wcorr[w]
    /\ pre_status = "DONE"
    /\ catalog[cur].status = "DONE"

(***************************************************************************)
(* Properties of the statuses do_validate_last and do_validate persist     *)
(* (Spec)                                                                  *)
(***************************************************************************)

\* C17: a step that changes the persisted status of a backup changes it to
\* ERROR, OK or CORRUPT and changes no other field of it, and no step
\* adds a backup to the catalog or takes one away.
C17_PersistsErrorOkCorrupt ==
    [][/\ DOMAIN catalog' = DOMAIN catalog
       /\ \A id \in DOMAIN catalog :
             catalog'[id] # catalog[id] =>
                 /\ catalog'[id].status \in {"ERROR", "OK", "CORRUPT"}
                 /\ catalog'[id] =
                       [catalog[id] EXCEPT !.status = catalog'[id].status]]_vars

\* C17 witness: do_validate_last has returned; a backup listed as DELETING
\* is ERROR and a backup listed as DONE is CORRUPT.
C17_Witness ==
    /\ op = "last"
    /\ pc = "done"
    /\ \E id, id2 \in DOMAIN catalog :
          /\ listed[id] = "DELETING"
          /\ catalog[id].status = "ERROR"
          /\ listed[id2] = "DONE"
          /\ catalog[id2].status = "CORRUPT"

(***************************************************************************)
(* Properties of the search with a given backup_id and of the loop over    *)
(* the differential backups (SpecChain)                                    *)
(***************************************************************************)

\* The backup with the given backup_id is in the list and is OK or CORRUPT:
\* the entry at which backup_id_found becomes true.
GivenUsable ==
    /\ backup_id \in DOMAIN catalog
    /\ listed[backup_id] \in {"OK", "CORRUPT"}

\* The full backups listed as OK or CORRUPT that are not newer than the
\* given backup.
FullAtOrBelow ==
    {id \in DOMAIN catalog :
        /\ id <= backup_id
        /\ catalog[id].backup_mode = BACKUP_MODE_FULL
        /\ listed[id] \in {"OK", "CORRUPT"}}

\* C18: with backup_id # 0 do_validate finds a base backup iff the backup
\* with that id is in the list with status OK or CORRUPT and the newest
\* full backup that is OK or CORRUPT and not newer than it satisfies the
\* timeline and the target, and that backup is the base; in every other
\* case the run ends with "no full backup found", or with the message about
\* the given backup when its status is another one.
C18_BaseBelowGiven ==
    (PastBaseScan /\ backup_id # 0) =>
        /\ BaseFound <=>
              /\ GivenUsable
              /\ FullAtOrBelow # {}
              /\ SetMax(FullAtOrBelow) \in satisfied
        /\ BaseFound => Base = SetMax(FullAtOrBelow)
        /\ BaseNotFound =>
              errmsg = IF backup_id \in DOMAIN catalog /\ ~GivenUsable
                       THEN GivenIsUnusable ELSE NoFullBackup

\* C18 witness: the given backup 3 is a differential backup that is OK, the
\* full backup 2 below it fails the timeline or the target, the older
\* full backup 1 is OK and satisfies both, and the run has ended with
\* "no full backup found".
C18_Witness ==
    /\ op = "validate"
    /\ pc = "fatal"
    /\ errmsg = NoFullBackup
    /\ backup_id = 3
    /\ listed[3] = "OK"
    /\ catalog[3].backup_mode = BACKUP_MODE_DIFF_PAGE
    /\ FullAtOrBelow = {1, 2}
    /\ listed[1] = "OK"
    /\ satisfied = {1, 3}

\* The backups newer than the base.
AboveBase == {id \in DOMAIN catalog : id > Base}

BeyondGiven(id) == backup_id # 0 /\ id > backup_id

FitsChain(id) ==
    /\ listed[id] \in {"OK", "CORRUPT"}
    /\ catalog[id].tli = catalog[Base].tli

\* The backups handed to pgBackupValidate after the base.
Members == {validated[k] : k \in DOMAIN validated \ {1}}

\* The members of a loop that stops at the first backup of Stops.
MembersUpTo(Stops) ==
    {id \in AboveBase :
        /\ \A s \in Stops : id < s
        /\ FitsChain(id)
        /\ catalog[id].backup_mode \in
              {BACKUP_MODE_DIFF_PAGE, BACKUP_MODE_DIFF_PTRACK}
        /\ id \in satisfied}

Ascending(s) == \A k, j \in DOMAIN s : k < j => s[k] < s[j]

\* C19 (as stated): the loop over the differential backups stops at the
\* first full backup above the base, or at the first backup newer than
\* the given one, and validates the backups before that point that are OK
\* or CORRUPT, on the timeline of the base, differential and satisfy the
\* timeline and the target.
C19_Original ==
    (op = "validate" /\ pc = "done") =>
        Members =
            MembersUpTo({id \in AboveBase :
                            \/ catalog[id].backup_mode = BACKUP_MODE_FULL
                            \/ BeyondGiven(id)})

\* C19 (amended): the loop stops at the first backup above the base that is
\* OK or CORRUPT and on the timeline of the base and is a full backup or
\* newer than the given one; a full backup with another status or on
\* another timeline is passed over.  The backups validated are those
\* before that point that are OK or CORRUPT, on the timeline of the base,
\* differential and satisfy the timeline and the target, in ascending
\* order after the base; none of them is newer than the given backup.
C19_ChainMembers ==
    /\ (op = "validate" /\ pc = "done") =>
          Members =
              MembersUpTo({id \in AboveBase :
                              /\ FitsChain(id)
                              /\ \/ catalog[id].backup_mode = BACKUP_MODE_FULL
                                 \/ BeyondGiven(id)})
    /\ (op = "validate" /\ BaseFound) =>
          /\ Ascending(validated)
          /\ \A id \in Members : ~BeyondGiven(id)

\* C19 witness: the base is the full backup 1, the full backup 2 is in ERROR
\* and the differential backup 3 has been validated after the base.
C19_Witness ==
    /\ op = "validate"
    /\ pc = "done"
    /\ catalog[2].backup_mode = BACKUP_MODE_FULL
    /\ listed[2] = "ERROR"
    /\ validated = <<1, 3>>

(***************************************************************************)
(* Properties of the order of the calls of do_validate (Spec)              *)
(***************************************************************************)

\* What a run of pgBackupValidate without the check option persists for
\* the backup.
Verdict(id) == IF Intact(id) THEN "OK" ELSE "CORRUPT"

\* validate_wal has been called by the running do_validate.
WalValidated == op = "validate" /\ wal_from # 0

\* The backups the loop over the differential backups stops at.
ChainStops ==
    {id \in AboveBase :
        /\ FitsChain(id)
        /\ \/ catalog[id].backup_mode = BACKUP_MODE_FULL
           \/ BeyondGiven(id)}

\* The calls of pgBackupValidate so far are the base and then differential
\* backups in ascending order.
BaseThenAscending ==
    validated # <<>> =>
        /\ Base = backups[base_index + 1].start_time
        /\ Ascending(validated)

\* C20 (as stated): the calls of pgBackupValidate are the base and then the
\* members in ascending order; validate_wal is called after the base and
\* every member have been validated and their verdicts persisted, and is
\* not called when the run ends with elog(ERROR).
C20_Original ==
    /\ (op = "validate" /\ Listed) => BaseThenAscending
    /\ WalValidated =>
          /\ pc = "done"
          /\ validated # <<>>
          /\ Members = MembersUpTo(ChainStops)
          /\ \A k \in DOMAIN validated :
                catalog[validated[k]].status = Verdict(validated[k])
    /\ (op = "validate" /\ pc = "fatal") => wal_from = 0

\* C20 (amended): the calls of pgBackupValidate are the base and then the
\* members in ascending order, each made when no call is running;
\* validate_wal is called once, as the last step of a run that returns,
\* after pgBackupValidate has returned for the base and every member, and
\* is not called when the run ends with elog(ERROR).  Without the check
\* option the verdict of each of them is persisted by then; with the check
\* option nothing is persisted and the statuses are the listed ones.
C20_SequentialThenWal ==
    /\ []((op = "validate" /\ Listed) => BaseThenAscending)
    /\ [](WalValidated =>
              /\ pc = "done"
              /\ validated # <<>>
              /\ Members = MembersUpTo(ChainStops)
              /\ \A k \in DOMAIN validated :
                    catalog[validated[k]].status =
                        IF check THEN listed[validated[k]]
                        ELSE Verdict(validated[k]))
    /\ []((op = "validate" /\ pc = "fatal") => wal_from = 0)
    /\ []((op = "validate" /\ pc = "done") => wal_from # 0)
    /\ [][(validated' # validated /\ validated' # <<>>) =>
              /\ pc \in {"last_loop", "base_scan", "diff_loop"}
              /\ ~SomeWorkerRuns
              /\ pc' = "validate"]_vars
    /\ [][(wal_from' # wal_from /\ wal_from' # 0) =>
              /\ wal_from = 0
              /\ pc = "wal"
              /\ pc' = "done"]_vars

\* C20 witness: do_validate without the check option has returned after the
\* base 1, found corrupt, and the differential backup 2, found intact, and
\* validate_wal has been called.
C20_Witness ==
    /\ WalValidated
    /\ pc = "done"
    /\ ~check
    /\ validated = <<1, 2>>
    /\ listed[1] = "OK"
    /\ catalog[1].status = "CORRUPT"
    /\ listed[2] = "CORRUPT"
    /\ catalog[2].status = "OK"

(***************************************************************************)
(* Properties of the call of validate_wal (SpecChain)                      *)
(***************************************************************************)

\* The start_lsn that do_validate has passed to validate_wal.
WalStartLsn == catalog[wal_from].start_lsn

\* The newest of the base and the differential backups validated after it.
LastRestored == SetMax({Base} \cup Members)

\* C21 (as stated): the range given to validate_wal starts at the start_lsn
\* of the base backup, also when differential backups have been validated
\* after the base.
C21_Original ==
    WalValidated => WalStartLsn = catalog[Base].start_lsn

\* C21 (amended): the range given to validate_wal starts at the start_lsn
\* of the backup validated last, which is the newest differential backup
\* validated after the base, and the base backup when there is none.
C21_WalFromLastRestored ==
    WalValidated =>
        /\ wal_from = validated[Len(validated)]
        /\ wal_from = LastRestored
        /\ WalStartLsn = catalog[LastRestored].start_lsn
        /\ Members = {} => WalStartLsn = catalog[Base].start_lsn
        /\ Members # {} => WalStartLsn > catalog[Base].start_lsn

\* C21 witness: do_validate has returned after the base 1 and the
\* differential backups 2 and 3, and validate_wal was given the start_lsn
\* of 3.
C21_Witness ==
    /\ WalValidated
    /\ pc = "done"
    /\ validated = <<1, 2, 3>>
    /\ wal_from = 3
    /\ WalStartLsn = catalog[3].start_lsn
    /\ WalStartLsn # catalog[1].start_lsn

(***************************************************************************)
(* Properties of a listing over entries that cannot be decoded (SpecStore) *)
(***************************************************************************)

\* The entries without a backup.ini.
Missing == {id \in DOMAIN ini : ini[id].errno = "ENOENT"}

\* The entries whose backup.ini holds a BACKUP_MODE that parse_backup_mode
\* does not know.
Unparsable ==
    {id \in Readable : catalog_read_ini(ini[id], 0).kind = "error"}

\* catalog_get_backup_list has been called on a directory of which one
\* entry cannot be decoded and every other one can.
ListedWithOneUndecodable ==
    /\ ret.op = "list"
    /\ Cardinality(Missing \cup Unparsable) = 1
    /\ DOMAIN ini = Readable \cup Missing

\* C23: when one entry of the directory cannot be decoded, because its
\* backup.ini is missing or holds a BACKUP_MODE that is not recognised,
\* catalog_get_backup_list leaves it out and goes on: it returns a list,
\* which holds the backup of every other entry that the filter selects.
C23_UndecodableSkipped ==
    ListedWithOneUndecodable =>
        /\ ret.kind = "list"
        /\ {ret.backups[k].start_time : k \in DOMAIN ret.backups} =
              {id \in Readable \ Unparsable : ret.arg = 0 \/ ret.arg = id}

(***************************************************************************)
(* SpecRewrite: calls of pgBackupValidate on the backups of a list that    *)
(* catalog_get_backup_list(0) has read from the text of the backup.ini     *)
(* files, up to the pgBackupWriteIni that ends each call.                  *)
(***************************************************************************)

\* The keys that a backup.ini of an earlier layout does not hold.
LaterKeys == {"BLOCK_SIZE", "XLOG_BLOCK_SIZE", "CHECKSUM_VERSION"}

\* The backup.ini that pgBackupWriteIni writes for b, without the lines of
\* keys.
IniWithout(b, keys) ==
    [errno |-> "OK",
     text |-> [k \in (DOMAIN IniText(b)) \ keys |-> IniText(b)[k]]]

\* The backups whose backup.ini is in the directory when the program
\* starts: of every mode that a backup is taken in and completed or
\* validated before.
RewriteRecords ==
    {StoreRecord(Varied, m, st, set) :
        m \in ValidModes, st \in {"DONE", "OK", "CORRUPT"}, set \in BOOLEAN}

\* Every entry of the directory holds a backup.ini: the oldest and the
\* newest one as pgBackupWriteIni writes it for a full backup, the other one
\* as pgBackupWriteIni writes it, or without BACKUP_MODE, or in the earlier
\* layout.
InitRewrite ==
    /\ dirents = ReadDir(StoreIds)
    /\ \E b \in RewriteRecords,
          keys \in {{}, {"BACKUP_MODE"}, LaterKeys} :
          ini = [id \in StoreIds |->
                    IF id = Varied THEN IniWithout(b, keys)
                    ELSE IniWithout(StoreRecord(id, BACKUP_MODE_FULL, "OK",
                                                FALSE), {})]
    /\ written = [id \in StoreIds |-> <<>>]
    /\ ret = [op |-> "none", arg |-> 0, kind |-> "none", backups |-> <<>>]
    /\ catalog = <<>>
    /\ files = <<>>
    /\ conf_exists = TRUE
    /\ holders = {}
    /\ lock_ret = -1
    /\ check = FALSE
    /\ num_threads = 1
    /\ interrupted = FALSE
    /\ pc = "store"
    /\ op = "none"
    /\ backup_id = 0
    /\ satisfied = {}
    /\ backups = <<>>
    /\ listed = <<>>
    /\ i = 0
    /\ base_index = 0
    /\ last_restored_index = 0
    /\ cur = 0
    /\ ret_to = "none"
    /\ size_only = FALSE
    /\ pre_status = "INVALID"
    /\ NoThreads
    /\ validated = <<>>
    /\ wal_from = 0
    /\ errmsg = ""

\* pgBackupValidate(backup, false, false) on entry k of the list in memory,
\* called by do_validate_last (a DONE backup of any mode) or by do_validate
\* (an OK or CORRUPT full or differential backup); corrupted is what the
\* threads report, and stays false when the mode has no database files.
\* The status is set in memory and pgBackupWriteIni writes the backup.ini
\* anew from the pgBackup in memory.
StoreValidate(k, corrupted) ==
    /\ pc = "store"
    /\ ~check
    /\ ret.op \in {"list", "validate"}
    /\ k \in DOMAIN ret.backups
    /\ LET b == ret.backups[k]
           st == IF corrupted THEN "CORRUPT" ELSE "OK"
           b1 == [b EXCEPT !.status = st]
       IN /\ \/ IsCompleted(b)
             \/ StatusUsable(b.status) /\ HasDatabaseFiles(b)
          /\ corrupted => HasDatabaseFiles(b)
          /\ ini' = [ini EXCEPT ![b.start_time] =
                         [errno |-> "OK", text |-> IniText(b1)]]
          /\ written' = [written EXCEPT ![b.start_time] = <<b1>>]
          /\ ret' = [op |-> "validate", arg |-> b.start_time, kind |-> st,
                     backups |-> [ret.backups EXCEPT ![k] = b1]]
    /\ UNCHANGED <<dirents, procVars>>

NextRewrite ==
    \/ StoreList(0)
    \/ \E k \in 1..Cardinality(StoreIds), corrupted \in BOOLEAN :
            StoreValidate(k, corrupted)

SpecRewrite == InitRewrite /\ [][NextRewrite]_vars

(***************************************************************************)
(* Properties of what a call of pgBackupValidate rewrites (SpecRewrite)    *)
(***************************************************************************)

====
